---------------------------- MODULE Spec2Model ----------------------------
(***************************************************************************)
(* Model of zoom_mute_monitor.py: the settings object (Config), the        *)
(* AppleScript probe (ZoomMuteMonitor.checkMuteStatus), the overlay view   *)
(* (MuteStatusView.updateStatus_), the repeating timer and the menu        *)
(* handlers that edit the settings.                                        *)
(*                                                                         *)
(* Text.  A string is a sequence of tokens.  A one-character token is that *)
(* character; a longer token stands for a fixed literal of the source (a   *)
(* message template, a script return value) and is spelled in ASCII.  The  *)
(* alphabet is small: the letter a in both cases, the letter b, the pipe   *)
(* the script joins menu items with, and the double quote that ends an     *)
(* AppleScript string literal.                                             *)
(***************************************************************************)
EXTENDS Integers, Sequences, FiniteSets, TLC

VARIABLES
    config,      \* Config: the six fields of the settings object
    file,        \* CONFIG_FILE on disk
    last_error,  \* ZoomMuteMonitor.last_error: <<>> is None, <<text>> a string
    timer,       \* ZoomMuteMonitor.timer: 0 is None, else the id of an NSTimer
    runloop,     \* the NSTimers scheduled on the run loop and still valid
    image,       \* what MuteStatusView.imageView shows
    event,       \* the event the run loop dispatched last
    probe        \* what the latest updateStatus_ call saw and returned

vars == <<config, file, last_error, timer, runloop, image, event, probe>>

-----------------------------------------------------------------------------
(* Bounds *)

\* longest menu the target application shows
MaxItems == 2
\* most NSTimers the run loop is allowed to hold at once
MaxTimers == 2

-----------------------------------------------------------------------------
(* Text *)

Quote == "\""
Pipe == "|"
Backslash == "\\"
\* one character outside ASCII, as the default keywords are made of
NonAscii == "U+30DF"

\* the words a user can type, a settings file can hold, a menu item can be named
wA == <<"a">>
wAB == <<"a", "b">>
wUpperA == <<"A">>
wPiped == <<"a", "|", "b">>
wQuoted == <<"a", "\"">>
wEmpty == <<>>
wBackslash == <<"\\", "a">>
wNonAscii == <<"U+30DF", "a">>

RECURSIVE Concat(_)
\* the concatenation of a sequence of strings
Concat(ss) == IF ss = <<>> THEN <<>> ELSE Head(ss) \o Concat(Tail(ss))

\* s[from..] starts with pre
StartsWith(s, pre) ==
    /\ Len(s) >= Len(pre)
    /\ \A i \in 1..Len(pre) : s[i] = pre[i]

\* s with its first n tokens dropped: Python s[n:]
Drop(s, n) == SubSeq(s, n + 1, Len(s))

\* does the string hold the character c
HasChar(s, c) == \E i \in 1..Len(s) : s[i] = c

RECURSIVE Split(_, _)
\* Python str.split(sep) on a one-character separator: always at least one
\* field, empty fields kept
Split(s, sep) ==
    IF ~HasChar(s, sep) THEN <<s>>
    ELSE LET p == CHOOSE i \in 1..Len(s) :
                      /\ s[i] = sep
                      /\ \A j \in 1..(i - 1) : s[j] # sep
         IN  <<SubSeq(s, 1, p - 1)>> \o Split(Drop(s, p), sep)


-----------------------------------------------------------------------------
(* Config *)

\* Config.__init__: the defaults.  The default muted keyword is the default
\* unmuted keyword with a suffix appended.
DefaultMutedKeyword == wAB
DefaultUnmutedKeyword == wA
DefaultIconSize == 100
DefaultCheckInterval == 200

\* an optional value: <<>> is None (or a key the file lacks), <<v>> is v
None == <<>>
Some(v) == <<v>>

ConfigDefaults ==
    [window_x |-> None, window_y |-> None, icon_size |-> DefaultIconSize,
     muted_keyword |-> DefaultMutedKeyword,
     unmuted_keyword |-> DefaultUnmutedKeyword,
     check_interval |-> DefaultCheckInterval]

\* JSON text.  A settings file is its keys, each missing (None) or holding
\* the text of its value: a string between double quotes with the quote, the
\* backslash and every non-ASCII character escaped (json.dump's
\* ensure_ascii), a number in decimal digits, or null.
JsonNull == <<"null">>

DigitChars == <<"0", "1", "2", "3", "4", "5", "6", "7", "8", "9">>

RECURSIVE Digits(_)
\* the decimal digits of n >= 0
Digits(n) ==
    IF n < 10 THEN <<DigitChars[n + 1]>>
    ELSE Digits(n \div 10) \o <<DigitChars[(n % 10) + 1]>>

\* json.dump of a number
JsonDumpsNumber(n) == IF n < 0 THEN <<"-">> \o Digits(0 - n) ELSE Digits(n)

RECURSIVE DigitsValue(_, _)
\* the number a run of decimal digits denotes, acc being the digits read so far
DigitsValue(ds, acc) ==
    IF ds = <<>> THEN acc
    ELSE DigitsValue(Tail(ds),
                     10 * acc + (CHOOSE d \in 0..9 : DigitChars[d + 1] = Head(ds)))

\* json.load of a number
JsonLoadsNumber(t) ==
    IF Head(t) = "-" THEN 0 - DigitsValue(Tail(t), 0) ELSE DigitsValue(t, 0)

\* the escape json.dump writes for one character
JsonEscape(c) ==
    IF c = Quote \/ c = Backslash THEN <<Backslash, c>>
    ELSE IF c = NonAscii THEN <<Backslash, "u30df">>
    ELSE <<c>>

\* json.dump of a string
JsonDumpsString(str) ==
    <<Quote>> \o Concat([i \in 1..Len(str) |-> JsonEscape(str[i])]) \o <<Quote>>

RECURSIVE JsonUnescape(_)
\* the characters of the inside of a JSON string
JsonUnescape(t) ==
    IF t = <<>> THEN <<>>
    ELSE IF Head(t) = Backslash
    THEN <<IF t[2] = "u30df" THEN NonAscii ELSE t[2]>> \o JsonUnescape(Drop(t, 2))
    ELSE <<Head(t)>> \o JsonUnescape(Tail(t))

\* json.load of a string
JsonLoadsString(t) == JsonUnescape(SubSeq(t, 2, Len(t) - 1))

\* json.dump of the value of a field: the window coordinates are a number or
\* None, the keywords strings, the icon size and the interval numbers
JsonDumps(key, value) ==
    IF key \in {"window_x", "window_y"}
    THEN IF value = None THEN JsonNull ELSE JsonDumpsNumber(value[1])
    ELSE IF key \in {"muted_keyword", "unmuted_keyword"}
    THEN JsonDumpsString(value)
    ELSE JsonDumpsNumber(value)

\* json.load of the text of a field
JsonLoads(key, t) ==
    IF key \in {"window_x", "window_y"}
    THEN IF t = JsonNull THEN None ELSE Some(JsonLoadsNumber(t))
    ELSE IF Head(t) = Quote THEN JsonLoadsString(t)
    ELSE JsonLoadsNumber(t)

\* dict.get(key, default) on the parsed settings
Get(data, key, default) ==
    IF data[key] = None THEN default ELSE JsonLoads(key, data[key][1])

\* Config.load: a missing or unreadable file leaves the defaults; a parsed one
\* is copied field by field, with no check of any value
Load(f) ==
    IF f.kind # "json" THEN ConfigDefaults
    ELSE [window_x |-> Get(f.data, "window_x", None),
          window_y |-> Get(f.data, "window_y", None),
          icon_size |-> Get(f.data, "icon_size", DefaultIconSize),
          muted_keyword |-> Get(f.data, "muted_keyword", DefaultMutedKeyword),
          unmuted_keyword |-> Get(f.data, "unmuted_keyword", DefaultUnmutedKeyword),
          check_interval |-> Get(f.data, "check_interval", DefaultCheckInterval)]

\* a save that leaves the window position out
Save_nowindow(cfg) ==
    [kind |-> "json",
     data |-> [window_x |-> None, window_y |-> None,
               icon_size |-> Some(JsonDumps("icon_size", cfg.icon_size)),
               muted_keyword |-> Some(JsonDumps("muted_keyword", cfg.muted_keyword)),
               unmuted_keyword |->
                   Some(JsonDumps("unmuted_keyword", cfg.unmuted_keyword)),
               check_interval |->
                   Some(JsonDumps("check_interval", cfg.check_interval))]]

\* Config.save: all six fields are written
Save(cfg) ==
    [kind |-> "json",
     data |-> [k \in {"window_x", "window_y", "icon_size", "muted_keyword",
                      "unmuted_keyword", "check_interval"} |->
                  Some(JsonDumps(k, cfg[k]))]]

\* the icon-size submenu MuteStatusView.rightMouseDown_ builds
IconSizePresets == {50, 100, 150, 200, 250, 300, 350, 400, 450, 500}

\* the interval submenu MuteStatusView.rightMouseDown_ builds
IntervalPresets == {10, 30, 50, 100, 200, 300, 500, 1000}

-----------------------------------------------------------------------------
(* The AppleScript of checkMuteStatus *)

\* AppleScript's "is equal to" on text ignores case unless the comparison is
\* wrapped in "considering case", which the script does not do
Lower(c) == IF c = "A" THEN "a" ELSE c

TextIsEqual(s, t) ==
    /\ Len(s) = Len(t)
    /\ \A i \in 1..Len(s) : Lower(s[i]) = Lower(t[i])

\* The keywords are pasted between double quotes with no escaping: a keyword
\* holding a double quote ends the literal early and the script does not compile
Compiles(mutedKeyword, unmutedKeyword) ==
    /\ ~HasChar(mutedKeyword, Quote)
    /\ ~HasChar(unmutedKeyword, Quote)

\* the keywords the f-string pastes into the script text
ScriptKeywords_stale(cfg) == <<DefaultMutedKeyword, DefaultUnmutedKeyword>>

ScriptKeywords(cfg) == <<cfg.muted_keyword, cfg.unmuted_keyword>>

\* the process the script talks to: "zoom.us" first, then "Zoom"
ZoomProcName_any(procs) ==
    IF procs = {} THEN "Zoom" ELSE IF "zoom.us" \in procs THEN "zoom.us" ELSE "Zoom"

ZoomProcName(procs) ==
    IF "zoom.us" \in procs THEN "zoom.us"
    ELSE IF "Zoom" \in procs THEN "Zoom"
    ELSE "missing value"

\* the first repeat loop: some item is equal to the muted keyword
MutedLoop(items, mutedKeyword) ==
    \E i \in 1..Len(items) : TextIsEqual(items[i], mutedKeyword)

\* the second repeat loop: some item is equal to the unmuted keyword
UnmutedLoop(items, unmutedKeyword) ==
    \E i \in 1..Len(items) : TextIsEqual(items[i], unmutedKeyword)

\* the third repeat loop: every item followed by a pipe
ItemList(items) == Concat([i \in 1..Len(items) |-> items[i] \o <<Pipe>>])

\* what the body of "tell menu bar item" returns for the items it read
MenuStatus_unmutedfirst(items, mutedKeyword, unmutedKeyword) ==
    IF UnmutedLoop(items, unmutedKeyword) THEN <<"unmuted">>
    ELSE IF MutedLoop(items, mutedKeyword) THEN <<"muted">>
    ELSE <<"unknown:">> \o ItemList(items)

MenuStatus(items, mutedKeyword, unmutedKeyword) ==
    IF MutedLoop(items, mutedKeyword) THEN <<"muted">>
    ELSE IF UnmutedLoop(items, unmutedKeyword) THEN <<"unmuted">>
    ELSE <<"unknown:">> \o ItemList(items)

\* the message System Events gives when the menu cannot be reached
MenuErrMsg == <<"Can't get menu bar item">>

\* The script run against the world w with the keywords kw pasted in:
\* [status, menu_attempted, menu_read]
RunScript(kw, w) ==
    IF ZoomProcName(w.procs) = "missing value"
    THEN [status |-> <<"not_running">>, menu_attempted |-> FALSE, menu_read |-> FALSE]
    ELSE IF ~w.menu_ok
    THEN [status |-> <<"error:">> \o MenuErrMsg,
          menu_attempted |-> TRUE, menu_read |-> FALSE]
    ELSE [status |-> MenuStatus(w.items, kw[1], kw[2]),
          menu_attempted |-> TRUE, menu_read |-> TRUE]

-----------------------------------------------------------------------------
(* ZoomMuteMonitor.checkMuteStatus *)

\* The message templates, in ASCII.  Each is one token.
TxtNotRunning == "Zoom is not running"
TxtAppleScriptError == "AppleScript error:\\n"
TxtCheckAccessibility == "\\n\\ncheck the accessibility permission"
TxtKeywordNotFound == "keyword not found\\n\\nmuted keyword: "
TxtUnmutedKeyword == "\\nunmuted keyword: "
TxtCheckItems == "\\n\\ncheck the items the Zoom status-bar icon shows"
TxtActualItems == "\\n\\n[actual menu items]\\n"
TxtBullet == "- "
TxtNewline == "\\n"
TxtUnexpected == "unexpected error:\\n"
TxtUnknownStatus == "unknown status: "

\* what NSAppleScript reports when it cannot compile or run the script
ScriptErrorMessage == <<"NSAppleScriptErrorMessage">>
\* type(e).__name__: str(e) of an exception raised inside the try block
ExceptionText == <<"RuntimeError", ": ", "e">>

\* lines 441-443: one "- item" line for each non-empty field of menu_items
ItemLines(menu_items) ==
    LET fields == Split(menu_items, Pipe)
    IN  Concat([i \in 1..Len(fields) |->
                  IF fields[i] = <<>> THEN <<>>
                  ELSE <<TxtBullet>> \o fields[i] \o <<TxtNewline>>])

\* lines 440 and 450: the text both "keyword not found" messages start with
KeywordNotFoundText(cfg) ==
    <<TxtKeywordNotFound>> \o cfg.muted_keyword \o <<TxtUnmutedKeyword>>
        \o cfg.unmuted_keyword \o <<TxtCheckItems>>

\* lines 427-453: the status string turned into [ret, last_error]
ParseStatus_keeperror(status, cfg, old_error) ==
    IF status = <<"muted">> THEN [ret |-> "True", last_error |-> old_error]
    ELSE IF status = <<"unmuted">> THEN [ret |-> "False", last_error |-> old_error]
    ELSE [ret |-> "None", last_error |-> Some(<<TxtUnknownStatus>> \o status)]

\* an error detail added to the one the slot already holds
ParseStatus_append(status, cfg, old_error) ==
    IF status = <<"muted">> THEN [ret |-> "True", last_error |-> None]
    ELSE IF status = <<"unmuted">> THEN [ret |-> "False", last_error |-> None]
    ELSE [ret |-> "None",
          last_error |->
              IF old_error = None THEN Some(<<TxtUnknownStatus>> \o status)
              ELSE Some(old_error[1] \o <<TxtNewline, TxtUnknownStatus>> \o status)]

ParseStatus(status, cfg, old_error) ==
    IF status = <<"muted">> THEN [ret |-> "True", last_error |-> None]
    ELSE IF status = <<"unmuted">> THEN [ret |-> "False", last_error |-> None]
    ELSE IF status = <<"not_running">>
    THEN [ret |-> "None", last_error |-> Some(<<TxtNotRunning>>)]
    ELSE IF StartsWith(status, <<"unknown:">>)
    THEN [ret |-> "None",
          last_error |-> Some(KeywordNotFoundText(cfg) \o <<TxtActualItems>>
                                \o ItemLines(Drop(status, 1)))]
    ELSE IF StartsWith(status, <<"error:">>)
    THEN [ret |-> "None",
          last_error |-> Some(<<TxtAppleScriptError>> \o Drop(status, 1)
                                \o <<TxtCheckAccessibility>>)]
    ELSE IF status = <<"unknown">>
    THEN [ret |-> "None", last_error |-> Some(KeywordNotFoundText(cfg))]
    ELSE [ret |-> "None", last_error |-> Some(<<TxtUnknownStatus>> \o status)]

\* line 454: the try block catches every Exception
CatchesException_no == FALSE

CatchesException == TRUE

\* checkMuteStatus in the world w: [ret, last_error, raised, menu_attempted,
\* menu_read, keywords].  w.fault is what goes wrong outside the script's own
\* try block: "exception" (a Python exception inside the try block),
\* "script_error" (executeAndReturnError_ returns an error), "nil_result" (no
\* result and no error), "bad_result" (a result that is none of the script's
\* return values), or "none".
checkMuteStatus(cfg, old_error, w) ==
    LET kw == ScriptKeywords(cfg)
        run == RunScript(kw, w)
        done(r, attempted, read) ==
            [ret |-> r.ret, last_error |-> r.last_error, raised |-> FALSE,
             menu_attempted |-> attempted, menu_read |-> read, keywords |-> kw]
    IN  IF w.fault = "exception"
        THEN IF CatchesException
             THEN done([ret |-> "None",
                        last_error |-> Some(<<TxtUnexpected>> \o ExceptionText)],
                       FALSE, FALSE)
             ELSE [ret |-> "None", last_error |-> old_error, raised |-> TRUE,
                   menu_attempted |-> FALSE, menu_read |-> FALSE, keywords |-> kw]
        ELSE IF w.fault = "script_error" \/ ~Compiles(kw[1], kw[2])
        THEN done([ret |-> "None",
                   last_error |-> Some(<<TxtAppleScriptError>> \o ScriptErrorMessage
                                         \o <<TxtCheckAccessibility>>)],
                  FALSE, FALSE)
        ELSE IF w.fault = "nil_result"
        THEN done(ParseStatus(<<"unknown">>, cfg, old_error), FALSE, FALSE)
        ELSE IF w.fault = "bad_result"
        THEN done(ParseStatus(<<"None">>, cfg, old_error), FALSE, FALSE)
        ELSE done(ParseStatus(run.status, cfg, old_error),
                  run.menu_attempted, run.menu_read)

-----------------------------------------------------------------------------
(* MuteStatusView.updateStatus_ *)

\* lines 110-118: the icon file for a state
IconFor(is_muted) ==
    IF is_muted = "None" THEN "unknown-512.png"
    ELSE IF is_muted = "True" THEN "micOff-512.png"
    ELSE "micOn-512.png"

\* lines 120-129: the image view after the call; icon_ok says the icon file
\* exists and NSImage loads it
MuteStatusView_updateStatus_skip(old_image, is_muted, icon_ok) ==
    IF is_muted = "None" THEN old_image ELSE IconFor(is_muted)

MuteStatusView_updateStatus_(old_image, is_muted, icon_ok) ==
    IF icon_ok THEN IconFor(is_muted) ELSE old_image

-----------------------------------------------------------------------------
(* The world a poll runs in, and the settings files a launch can find *)

\* the names menu items carry
ItemNames == {wA, wAB, wUpperA, wPiped}

\* the menus of at most n items
Menus(n) == UNION {[1..k -> ItemNames] : k \in 0..n}

\* a world with no fault outside the script
World(procs, menu_ok, items, icon_ok) ==
    [fault |-> "none", procs |-> procs, menu_ok |-> menu_ok, items |-> items,
     icon_ok |-> icon_ok]

\* the worlds in which the call fails outside the script's try block
FaultWorlds ==
    {[fault |-> f, procs |-> {"zoom.us"}, menu_ok |-> FALSE, items |-> <<>>,
      icon_ok |-> TRUE] :
        f \in {"exception", "script_error", "nil_result", "bad_result"}}
    \cup {[fault |-> "script_error", procs |-> {}, menu_ok |-> FALSE,
           items |-> <<>>, icon_ok |-> TRUE]}

\* the worlds in which the script runs, over the menus in ms
ScriptWorlds(ms) ==
    {World({}, FALSE, <<>>, ok) : ok \in BOOLEAN}
    \cup {World(ps, FALSE, <<>>, ok) :
            ps \in {{"zoom.us"}, {"Zoom"}, {"zoom.us", "Zoom"}}, ok \in BOOLEAN}
    \cup {World(ps, TRUE, m, ok) :
            ps \in {{"zoom.us"}, {"Zoom"}, {"zoom.us", "Zoom"}}, m \in ms,
            ok \in BOOLEAN}

\* every world, with menus up to MaxItems items
Worlds == FaultWorlds \cup ScriptWorlds(Menus(MaxItems))

\* every world in which the icon files are in place
ProberWorlds == {w \in Worlds : w.icon_ok}

\* one world of each kind, the target process under its primary name
CoreWorlds ==
    FaultWorlds
    \cup {World({}, FALSE, <<>>, ok) : ok \in BOOLEAN}
    \cup {World({"zoom.us"}, FALSE, <<>>, TRUE)}
    \cup {World({"zoom.us"}, TRUE, m, ok) :
            m \in {<<wA>>, <<wAB>>, <<wPiped>>}, ok \in BOOLEAN}

\* what a user types into a keyword dialog
TypedWords == {wA, wAB, wEmpty}

\* the keyword a settings file holds, if it holds one
FileKeywords == {None, Some(wA), Some(wAB), Some(wQuoted)}

\* the interval a settings file holds, if it holds one: nothing in Config.load
\* restricts it to the presets
FileIntervals == {None, Some(0), Some(250)}

\* the settings files a launch can find
JsonFile(muted, unmuted, interval) ==
    [kind |-> "json",
     data |-> [window_x |-> None, window_y |-> None, icon_size |-> None,
               muted_keyword |->
                   IF muted = None THEN None
                   ELSE Some(JsonDumpsString(muted[1])),
               unmuted_keyword |->
                   IF unmuted = None THEN None
                   ELSE Some(JsonDumpsString(unmuted[1])),
               check_interval |->
                   IF interval = None THEN None
                   ELSE Some(JsonDumpsNumber(interval[1]))]]

NoFile == [kind |-> "absent", data |-> JsonFile(None, None, None).data]
CorruptFile == [kind |-> "corrupt", data |-> JsonFile(None, None, None).data]

-----------------------------------------------------------------------------
(* State *)

\* No poll has run yet.  The fields of probe record the latest poll: the
\* world it ran in, what checkMuteStatus returned (ret, raised), whether the
\* view's updateStatus_ was called (rendered), whether the script tried to read
\* and did read the menu, the keywords pasted into the script, whether
\* last_error was set before the call (had_error), whether the keywords differ
\* from those of the poll before (new_keywords), and the timer that fired.
NoProbe ==
    [polled |-> FALSE, world |-> World({}, FALSE, <<>>, FALSE), ret |-> "None",
     raised |-> FALSE, rendered |-> FALSE, menu_attempted |-> FALSE,
     menu_read |-> FALSE, keywords |-> <<wEmpty, wEmpty>>,
     had_error |-> FALSE, new_keywords |-> FALSE, repeat |-> FALSE,
     fired |-> 0]

\* ZoomMuteMonitor.init with the settings file f on disk
InitWith(f) ==
    /\ file = f
    /\ config = Load(f)
    /\ last_error = None
    /\ timer = 0
    /\ runloop = {}
    /\ image = "none"
    /\ event = "init"
    /\ probe = NoProbe

\* the timer ids not on the run loop rl
FreeIds(rl) == {i \in 1..MaxTimers : \A t \in rl : t.id # i}

\* NSTimer.scheduledTimerWithTimeInterval...: a new repeating timer on rl
Schedule(rl, interval) ==
    rl \cup {[id |-> CHOOSE i \in FreeIds(rl) : \A j \in FreeIds(rl) : i <= j,
              interval |-> interval]}

\* the id Schedule gives the new timer
NewId(rl) == CHOOSE i \in FreeIds(rl) : \A j \in FreeIds(rl) : i <= j

\* NSTimer.invalidate: the timer leaves the run loop for good
Invalidate_noop(rl, id) == rl

Invalidate(rl, id) == {t \in rl : t.id # id}

-----------------------------------------------------------------------------
(* Operations *)

\* ZoomMuteMonitor.updateStatus_ in the world w, called by the timer `fired`
\* (0: called directly): checkMuteStatus, then the view's updateStatus_
updateStatus_(w, fired) ==
    \E r \in {checkMuteStatus(config, last_error, w)} :
        /\ last_error' = r.last_error
        /\ image' = IF r.raised THEN image
                    ELSE MuteStatusView_updateStatus_(image, r.ret, w.icon_ok)
        /\ probe' = [polled |-> TRUE, world |-> w, ret |-> r.ret,
                     raised |-> r.raised, rendered |-> ~r.raised,
                     menu_attempted |-> r.menu_attempted,
                     menu_read |-> r.menu_read, keywords |-> r.keywords,
                     had_error |-> last_error # None,
                     new_keywords |-> probe.polled /\ probe.keywords # r.keywords,
                     repeat |-> /\ event = "updateStatus_"
                                /\ probe.world = w
                                /\ probe.keywords = r.keywords,
                     fired |-> fired]
        /\ event' = "updateStatus_"

\* ZoomMuteMonitor.startMonitoring: the window, the timer, the first check
startMonitoring(w) ==
    /\ timer = 0
    /\ FreeIds(runloop) # {}
    /\ timer' = NewId(runloop)
    /\ runloop' = Schedule(runloop, config.check_interval)
    /\ updateStatus_(w, 0)
    /\ UNCHANGED <<config, file>>

\* a scheduled timer fires and calls updateStatus_
TimerFires(w) ==
    /\ \E t \in runloop : updateStatus_(w, t.id)
    /\ UNCHANGED <<config, file, timer, runloop>>

\* ZoomMuteMonitor.setCheckInterval_ with the tag of the chosen menu item
setCheckInterval_(interval) ==
    /\ timer # 0
    /\ LET cfg == [config EXCEPT !.check_interval = interval]
           rl == Invalidate(runloop, timer)
       IN  /\ FreeIds(rl) # {}
           /\ config' = cfg
           /\ file' = Save(cfg)
           /\ timer' = NewId(rl)
           /\ runloop' = Schedule(rl, interval)
    /\ event' = "setCheckInterval_"
    /\ UNCHANGED <<last_error, image, probe>>

\* a keyword dialog that takes the text of its field even when it is empty
setMutedKeyword_emptytext(response, text) ==
    /\ timer # 0
    /\ IF response = "OK"
       THEN LET cfg == [config EXCEPT !.muted_keyword = text]
            IN  config' = cfg /\ file' = Save(cfg)
       ELSE UNCHANGED <<config, file>>
    /\ event' = "setMutedKeyword_"
    /\ UNCHANGED <<last_error, timer, runloop, image, probe>>

\* ZoomMuteMonitor.setMutedKeyword_: the dialog answered with `response` and
\* `text` in its field
setMutedKeyword_(response, text) ==
    /\ timer # 0
    /\ IF response = "OK" /\ text # <<>>
       THEN LET cfg == [config EXCEPT !.muted_keyword = text]
            IN  config' = cfg /\ file' = Save(cfg)
       ELSE UNCHANGED <<config, file>>
    /\ event' = "setMutedKeyword_"
    /\ UNCHANGED <<last_error, timer, runloop, image, probe>>

\* ZoomMuteMonitor.setUnmutedKeyword_
setUnmutedKeyword_(response, text) ==
    /\ timer # 0
    /\ IF response = "OK" /\ text # <<>>
       THEN LET cfg == [config EXCEPT !.unmuted_keyword = text]
            IN  config' = cfg /\ file' = Save(cfg)
       ELSE UNCHANGED <<config, file>>
    /\ event' = "setUnmutedKeyword_"
    /\ UNCHANGED <<last_error, timer, runloop, image, probe>>

\* ZoomMuteMonitor.showError_: the menu offers it only while last_error is set;
\* it shows the stored text and probes nothing
showError_ ==
    /\ timer # 0
    /\ last_error # None
    /\ event' = "showError_"
    /\ UNCHANGED <<config, file, last_error, timer, runloop, image, probe>>

\* ZoomMuteMonitor.setIconSize_ with the tag of the chosen menu item; the
\* view's updateIconSize_ resizes the window and keeps the image
setIconSize_(size) ==
    /\ timer # 0
    /\ LET cfg == [config EXCEPT !.icon_size = size]
       IN  config' = cfg /\ file' = Save(cfg)
    /\ event' = "setIconSize_"
    /\ UNCHANGED <<last_error, timer, runloop, image, probe>>

\* MuteStatusView.mouseUp_ at the end of a drag (mouseDown_ has set
\* drag_start) that left the window's origin at (x, y)
mouseUp_(x, y) ==
    /\ timer # 0
    /\ LET cfg == [config EXCEPT !.window_x = Some(x), !.window_y = Some(y)]
       IN  config' = cfg /\ file' = Save(cfg)
    /\ event' = "mouseUp_"
    /\ UNCHANGED <<last_error, timer, runloop, image, probe>>

\* the quit item ends the application; the next launch runs main again:
\* ZoomMuteMonitor.init builds a Config, which loads the file as it is now
Relaunch ==
    /\ timer # 0
    /\ config' = Load(file)
    /\ last_error' = None
    /\ timer' = 0
    /\ runloop' = {}
    /\ image' = "none"
    /\ event' = "init"
    /\ probe' = NoProbe
    /\ UNCHANGED file

-----------------------------------------------------------------------------
(* Specifications *)

\* the whole application: any settings file, every handler, one world of each
\* kind
Init ==
    \E f \in {NoFile, CorruptFile}
          \cup {JsonFile(m, u, i) :
                  m \in {None, Some(wA)}, u \in {None, Some(wAB)},
                  i \in FileIntervals} :
        InitWith(f)

Next ==
    \/ \E w \in CoreWorlds : startMonitoring(w)
    \/ \E w \in CoreWorlds : TimerFires(w)
    \/ \E i \in IntervalPresets : setCheckInterval_(i)
    \/ \E r \in {"OK", "Cancel"}, t \in TypedWords : setMutedKeyword_(r, t)
    \/ \E r \in {"OK", "Cancel"}, t \in TypedWords : setUnmutedKeyword_(r, t)
    \/ showError_

Spec == Init /\ [][Next]_vars

\* the prober alone: any keywords, every world
InitProber ==
    \E f \in {NoFile}
          \cup {JsonFile(m, u, None) : m \in FileKeywords, u \in FileKeywords} :
        InitWith(f)

NextProber ==
    \/ \E w \in ProberWorlds : startMonitoring(w)
    \/ \E w \in ProberWorlds : TimerFires(w)

SpecProber == InitProber /\ [][NextProber]_vars

\* the settings: every handler that writes the configuration, keywords with
\* characters JSON escapes, window positions, and the application quit and
\* launched again on the file it left
SettingsFiles ==
    {NoFile, CorruptFile,
     JsonFile(Some(wQuoted), Some(wEmpty), Some(0)),
     JsonFile(None, Some(wNonAscii), None)}

SettingsWorlds ==
    {World({"zoom.us"}, TRUE, <<wA>>, TRUE), World({}, TRUE, <<>>, TRUE)}

SettingsWords == {wEmpty, wBackslash}

WindowOrigins == {<<-5, 120>>, <<0, 40>>}

InitSettings == \E f \in SettingsFiles : InitWith(f)

NextSettings ==
    \/ \E w \in SettingsWorlds : startMonitoring(w)
    \/ \E w \in SettingsWorlds : TimerFires(w)
    \/ \E i \in IntervalPresets \cap {10, 1000} : setCheckInterval_(i)
    \/ \E size \in IconSizePresets \cap {50, 500} : setIconSize_(size)
    \/ \E o \in WindowOrigins : mouseUp_(o[1], o[2])
    \/ \E r \in {"OK", "Cancel"}, t \in SettingsWords : setMutedKeyword_(r, t)
    \/ \E r \in {"OK", "Cancel"}, t \in SettingsWords : setUnmutedKeyword_(r, t)
    \/ showError_
    \/ Relaunch

SpecSettings == InitSettings /\ [][NextSettings]_vars

-----------------------------------------------------------------------------
(* Claims *)

\* the items the latest poll's world showed, and the keywords configured then
PolledItems == probe.world.items
KeywordA == probe.keywords[1]
KeywordB == probe.keywords[2]

\* some item of the menu is the word, character for character
HasItem(items, word) == \E i \in 1..Len(items) : items[i] = word

\* text[p..] starts with the word
OccursAt(text, word, p) ==
    /\ p + Len(word) - 1 <= Len(text)
    /\ \A i \in 1..Len(word) : text[p + i - 1] = word[i]

RECURSIVE ContainsInOrder(_, _, _)
\* the words occur in the text from position `from` on, one after the other
ContainsInOrder(text, words, from) ==
    \/ words = <<>>
    \/ \E p \in from..(Len(text) + 1) :
           /\ OccursAt(text, Head(words), p)
           /\ ContainsInOrder(text, Tail(words), p + Len(Head(words)))

\* C1: when the menu was read and some item equals the muted keyword A
\* exactly, with A # B, checkMuteStatus returned True, wherever A and B are
C1_MutedWins ==
    (/\ probe.polled
     /\ probe.menu_read
     /\ KeywordA # KeywordB
     /\ HasItem(PolledItems, KeywordA))
        => probe.ret = "True"

\* C1 witness: the unmuted keyword is the first item, the muted keyword the
\* second, and the poll returned True
C1_Witness ==
    /\ probe.polled
    /\ probe.menu_read
    /\ KeywordA # KeywordB
    /\ Len(PolledItems) = 2
    /\ PolledItems[1] = KeywordB
    /\ PolledItems[2] = KeywordA
    /\ probe.ret = "True"

\* C2: when the menu was read, some item equals the unmuted keyword exactly
\* and no item equals the muted keyword exactly, checkMuteStatus returned False
C2_UnmutedOnExactMatch ==
    (/\ probe.polled
     /\ probe.menu_read
     /\ HasItem(PolledItems, KeywordB)
     /\ ~HasItem(PolledItems, KeywordA))
        => probe.ret = "False"

\* C3: when the menu was read and no item equals either keyword exactly,
\* checkMuteStatus returned None and last_error holds every item as read, in
\* the order of the menu
C3_UnknownListsItems ==
    (/\ probe.polled
     /\ probe.menu_read
     /\ ~HasItem(PolledItems, KeywordA)
     /\ ~HasItem(PolledItems, KeywordB))
        => /\ probe.ret = "None"
           /\ last_error # None
           /\ ContainsInOrder(last_error[1], PolledItems, 1)

\* C4 as stated: when neither process is running, checkMuteStatus returned
\* None, last_error is the "not running" text and no menu read was attempted
C4_NotRunningDetail ==
    (probe.polled /\ probe.world.procs = {})
        => /\ probe.ret = "None"
           /\ last_error = Some(<<TxtNotRunning>>)
           /\ ~probe.menu_attempted

\* C4 amended: when neither process is running, checkMuteStatus returned None
\* and no menu read was attempted; last_error is the "not running" text when
\* the script compiled and ran, and the AppleScript error text when it did not
C4_NotRunningOrScriptError ==
    (probe.polled /\ probe.world.procs = {})
        => /\ probe.ret = "None"
           /\ ~probe.menu_attempted
           /\ last_error =
                IF probe.world.fault = "none" /\ Compiles(KeywordA, KeywordB)
                THEN Some(<<TxtNotRunning>>)
                ELSE Some(<<TxtAppleScriptError>> \o ScriptErrorMessage
                            \o <<TxtCheckAccessibility>>)

\* C4 witness: a poll with no process running and a script that ran
C4_Witness ==
    /\ probe.polled
    /\ probe.world.procs = {}
    /\ probe.world.fault = "none"
    /\ Compiles(KeywordA, KeywordB)
    /\ probe.ret = "None"
    /\ last_error = Some(<<TxtNotRunning>>)
    /\ ~probe.menu_attempted

\* C5: once a poll has run, last_error is set exactly when the latest
\* checkMuteStatus returned None, and right after a poll it is the text that
\* poll alone produces, whatever the slot held before
C5_ErrorIffUnknown ==
    probe.polled =>
        /\ (last_error # None) <=> (probe.ret = "None")
        /\ event = "updateStatus_" =>
               last_error = checkMuteStatus(config, None, probe.world).last_error

\* C5 witness: a poll that returned True or False found last_error set by an
\* earlier poll and left it cleared
C5_Witness ==
    /\ probe.polled
    /\ event = "updateStatus_"
    /\ probe.had_error
    /\ probe.ret \in {"True", "False"}
    /\ last_error = None

\* the failure of the latest poll, "" when it had none
FailureMode ==
    IF probe.world.fault = "exception" THEN "unexpected exception"
    ELSE IF probe.world.fault = "script_error" \/ ~Compiles(KeywordA, KeywordB)
    THEN "script execution error"
    ELSE IF probe.world.fault = "nil_result" THEN "no result"
    ELSE IF probe.world.fault = "bad_result" THEN "unrecognised result"
    ELSE IF probe.world.procs = {} THEN "not running"
    ELSE IF ~probe.world.menu_ok THEN "menu unreachable"
    ELSE IF ~MutedLoop(PolledItems, KeywordA) /\ ~UnmutedLoop(PolledItems, KeywordB)
    THEN "no keyword match"
    ELSE ""

\* the template a failure's message starts with
MessageFor(mode) ==
    CASE mode = "unexpected exception" -> TxtUnexpected
      [] mode = "script execution error" -> TxtAppleScriptError
      [] mode = "menu unreachable" -> TxtAppleScriptError
      [] mode = "not running" -> TxtNotRunning
      [] mode = "no keyword match" -> TxtKeywordNotFound
      [] mode = "no result" -> TxtKeywordNotFound
      [] mode = "unrecognised result" -> TxtUnknownStatus

\* C6: every failure of the latest poll ended with checkMuteStatus returning
\* None without raising, last_error starting with the message of that failure,
\* and updateStatus_ calling the view with the result
C6_FailuresContained ==
    (probe.polled /\ FailureMode # "")
        => /\ probe.ret = "None"
           /\ ~probe.raised
           /\ probe.rendered
           /\ last_error # None
           /\ Head(last_error[1]) = MessageFor(FailureMode)

\* C6 witness: an exception inside the try block, reported and rendered
C6_Witness ==
    /\ probe.polled
    /\ FailureMode = "unexpected exception"
    /\ probe.ret = "None"
    /\ probe.rendered
    /\ last_error = Some(<<TxtUnexpected>> \o ExceptionText)
    /\ image = "unknown-512.png"

\* C7: once monitoring has started, the run loop holds exactly one timer, it
\* is the one self.timer names, its period is the configured interval, and
\* the tick that called the latest poll came from it
C7_OneTimer ==
    timer # 0 =>
        /\ runloop = {[id |-> timer, interval |-> config.check_interval]}
        /\ (event = "updateStatus_" /\ probe.fired # 0) => probe.fired = timer

\* C7 witness: setCheckInterval_ has just completed and the only timer has
\* the interval it set
C7_Witness ==
    /\ event = "setCheckInterval_"
    /\ config.check_interval = 10
    /\ runloop = {[id |-> timer, interval |-> 10]}

\* C8 as stated: right after a poll the image is the icon of the state that
\* poll returned
C8_ImageIsLatestState ==
    event = "updateStatus_" => image = IconFor(probe.ret)

\* C8 amended: a poll whose icon file exists and loads leaves the icon of the
\* state it returned in the image view; a poll whose icon file is missing or
\* does not load leaves the image as it was
C8_ImageUpdatedWhenIconLoads ==
    [][event' = "updateStatus_" =>
          image' = IF probe'.world.icon_ok THEN IconFor(probe'.ret) ELSE image]_vars

\* C8 witness: a poll that followed an Unknown poll returned True and the
\* image is the muted icon
C8_Witness ==
    /\ event = "updateStatus_"
    /\ probe.had_error
    /\ probe.world.icon_ok
    /\ probe.ret = "True"
    /\ image = "micOff-512.png"

\* C9: the keywords the latest poll pasted into its script are those of the
\* configuration at the start of that call, and it classified the menu with them
C9_CurrentKeywords ==
    event = "updateStatus_" =>
        /\ probe.keywords = <<config.muted_keyword, config.unmuted_keyword>>
        /\ probe.menu_read =>
               probe.ret =
                   IF MutedLoop(PolledItems, config.muted_keyword) THEN "True"
                   ELSE IF UnmutedLoop(PolledItems, config.unmuted_keyword)
                   THEN "False"
                   ELSE "None"

\* C9 witness: the first poll after a keyword edit matched the menu against
\* the new muted keyword
C9_Witness ==
    /\ event = "updateStatus_"
    /\ probe.new_keywords
    /\ probe.menu_read
    /\ probe.keywords[1] = config.muted_keyword
    /\ config.muted_keyword = wA
    /\ PolledItems = <<wA>>
    /\ probe.ret = "True"

\* C10: the poll interval is positive and one of the presets
C10_IntervalIsPreset ==
    /\ config.check_interval > 0
    /\ config.check_interval \in IntervalPresets

\* C11: when the application is launched on the file a Config.save of the
\* configuration wrote, Config.load yields that configuration again: the same
\* window position (unset stays unset), icon size, keywords and interval.
C11_SaveLoadRoundTrip ==
    [][(event' = "init" /\ file = Save(config)) => config' = config]_vars

\* the application launched again on a saved file that holds a window
\* position, a keyword with a backslash and one with a non-ASCII character
C11_Witness ==
    /\ event = "init"
    /\ file = Save(config)
    /\ config.window_x = Some(-5)
    /\ config.muted_keyword = wBackslash
    /\ config.unmuted_keyword = wNonAscii
    /\ config.icon_size = 500

\* C12: a poll that repeats the previous poll, in the same world with the same
\* keywords, returns the state the previous poll returned and leaves
\* last_error as the previous poll left it, whatever the slot held before.
C12_RepeatedPollSameResult ==
    [][(event' = "updateStatus_" /\ probe'.repeat)
          => (probe'.ret = probe.ret /\ last_error' = last_error)]_vars

\* a repeated poll of a world without Zoom: the slot held the detail the first
\* poll left and holds it still
C12_Witness ==
    /\ event = "updateStatus_"
    /\ probe.repeat
    /\ probe.had_error
    /\ probe.world.procs = {}
    /\ probe.ret = "None"
    /\ last_error = Some(<<TxtNotRunning>>)

\* the keywords of the configuration
Keywords(cfg) == <<cfg.muted_keyword, cfg.unmuted_keyword>>

=============================================================================
